---- MODULE Spec2Model ----
(***************************************************************************)
(* Model of the team optimiser's exhaustive partition search               *)
(* (backend/src/teamOptimizer.ts): the combination generator, the          *)
(* partition generator with symmetry breaking, the conflict scorer and     *)
(* the optimisation driver; of the POST /api/optimize handler that calls   *)
(* it (backend/src/index.ts); and of the front end's team-size calculator  *)
(* (frontend/src/routes/+page.svelte).                                     *)
(*                                                                         *)
(* Person ids are JavaScript strings; a string is modelled as the sequence *)
(* of its digits and compared as JavaScript compares strings (code unit by *)
(* code unit, a proper prefix first), so that "10" < "2".                  *)
(* A Person is [ref, id]: ref is the object's identity (its position in    *)
(* the request's people array), which is what Array.includes compares.     *)
(***************************************************************************)
EXTENDS Bags, Integers, Sequences, FiniteSets, TLC

\* ---------------------------------------------------------------- bounds
MaxSlots == 3
MaxCount == 1
MaxResultsArg == 2
MaxElapsed == 1
MaxScenarioCount == 5
MaxTotalPeople == 15
MaxTeamSize == 5

\* The requests of the Optimize screen that may be pending together.
MaxInFlight == 2

\* -------------------------------------------------------------- constants
\* let minScore = Infinity: above every score the bounded inputs can reach.
Infinity == 1000000
\* maxResults: number = 10
DefaultMaxResults == 10

\* The absent value of an optional (null / undefined): the empty set; a
\* present value v is {v}.
NULL == {}

Some(v) == {v}

ValueOf(opt) == CHOOSE v \in opt : TRUE

\* The ids "1", "10", "2", "3".
IdPool == { <<1>>, <<1, 0>>, <<2>>, <<3>> }

MaxPeople == Cardinality(IdPool)

\* The ordered pairs of ids the requests' matrices may populate: a pair in
\* both directions, and a pair in one direction only.
PopulatedPairs ==
  { << <<1>>, <<2>> >>, << <<2>>, <<1>> >>, << <<1, 0>>, <<3>> >> }

\* ------------------------------------------------------------ JS helpers
\* a < b on strings.
RECURSIVE StrLess(_, _)
StrLess(a, b) ==
  IF b = <<>> THEN FALSE
  ELSE IF a = <<>> THEN TRUE
  ELSE IF Head(a) # Head(b) THEN Head(a) < Head(b)
  ELSE StrLess(Tail(a), Tail(b))

\* a <= b on strings.
StrLeq(a, b) == a = b \/ StrLess(a, b)

\* array.slice(0, end).
Slice0(array, end) ==
  LET n == Len(array)
      e == IF end < 0 THEN (IF n + end < 0 THEN 0 ELSE n + end)
           ELSE IF end > n THEN n ELSE end
  IN  SubSeq(array, 1, e)

\* Mutant: the slice starts one element early.
SliceFrom_oneEarly(array, from) == SubSeq(array, from, Len(array))

\* array.slice(from) with a 0-based from <= array.length.
SliceFrom(array, from) == SubSeq(array, from + 1, Len(array))

\* teamSizes.reduce((sum, size) => sum + size, 0)
RECURSIVE totalPeopleNeeded(_)
totalPeopleNeeded(sizes) ==
  IF sizes = <<>> THEN 0 ELSE Head(sizes) + totalPeopleNeeded(Tail(sizes))

\* ------------------------------------------------------- conflict scorer
\* Mutant: the matrix is read as conflictMatrix[person2]?.[person1].
conflictLookup_reversed(matrix, person1, person2) ==
  IF <<person2, person1>> \in DOMAIN matrix THEN matrix[<<person2, person1>>] ELSE 0

\* conflictMatrix[person1]?.[person2] ?? 0. The matrix is a function from
\* the ordered pairs <<a, b>> that are present to their counts.
conflictLookup(matrix, person1, person2) ==
  IF <<person1, person2>> \in DOMAIN matrix THEN matrix[<<person1, person2>>] ELSE 0

\* for (let j = i + 1; j < team.length; j++)
RECURSIVE scoreInner(_, _, _, _)
scoreInner(team, matrix, i, j) ==
  IF j > Len(team) THEN 0
  ELSE conflictLookup(matrix, team[i].id, team[j].id) + scoreInner(team, matrix, i, j + 1)

\* for (let i = 0; i < team.length; i++)
RECURSIVE scoreOuter(_, _, _)
scoreOuter(team, matrix, i) ==
  IF i > Len(team) THEN 0
  ELSE scoreInner(team, matrix, i, i + 1) + scoreOuter(team, matrix, i + 1)

RECURSIVE calculateConflictScore(_, _)
calculateConflictScore(teams, matrix) ==
  IF teams = <<>> THEN 0
  ELSE scoreOuter(Head(teams), matrix, 1) + calculateConflictScore(Tail(teams), matrix)

\* ------------------------------------------------------------ generators
\* What a generator produces when it is run to its end: the values it
\* yields, in order, and the error that ends it ("none" when it returns).
Stream(ys, err) == [ys |-> ys, err |-> err]

\* Mutant: the combos are gone through from the last to the first.
PrependAll_reversed(first, combos) ==
  [n \in 1 .. Len(combos) |-> <<first>> \o combos[Len(combos) + 1 - n]]

\* [first, ...combo] for every combo of a stream.
PrependAll(first, combos) == [n \in 1 .. Len(combos) |-> <<first>> \o combos[n]]

RECURSIVE combinationsOk(_, _)
RECURSIVE combinationsLoop(_, _, _)
\* combinations(array, k) for k >= 0.
combinationsOk(array, k) ==
  IF k = 0 THEN << <<>> >>
  ELSE IF k > Len(array) THEN <<>>
  ELSE combinationsLoop(array, k, 0)

\* for (let i = 0; i <= array.length - k; i++), from i on.
combinationsLoop(array, k, i) ==
  IF i > Len(array) - k THEN <<>>
  ELSE PrependAll(array[i + 1], combinationsOk(SliceFrom(array, i + 1), k - 1))
         \o combinationsLoop(array, k, i + 1)

\* Mutant: the recursion has no base case, so every call overflows the stack.
combinations_noBase(array, k) == Stream(<<>>, "RangeError")

\* Mutant: an empty array yields nothing, whatever k is.
combinations_emptyFirst(array, k) ==
  IF array = <<>> THEN Stream(<<>>, "none")
  ELSE IF k < 0 THEN Stream(<<>>, "RangeError")
  ELSE Stream(combinationsOk(array, k), "none")

\* combinations(array, k). A negative k never meets k === 0 and is never
\* above array.length, and the loop's first iteration calls
\* combinations(rest, k - 1) before anything is yielded: the recursion has
\* no end and the call stack overflows.
combinations(array, k) ==
  IF k < 0 THEN Stream(<<>>, "RangeError") ELSE Stream(combinationsOk(array, k), "none")

\* Mutant: any later team of the same size counts, adjacent or not.
nextTeamHasSameSize_anyLater(firstTeamSize, remainingTeamSizes) ==
  \E n \in 1 .. Len(remainingTeamSizes) : remainingTeamSizes[n] = firstTeamSize

\* Mutant: the next team is never taken to have the same size.
nextTeamHasSameSize_never(firstTeamSize, remainingTeamSizes) == FALSE

\* remainingTeamSizes.length > 0 && remainingTeamSizes[0] === firstTeamSize
nextTeamHasSameSize(firstTeamSize, remainingTeamSizes) ==
  Len(remainingTeamSizes) > 0 /\ remainingTeamSizes[1] = firstTeamSize

\* firstTeam.reduce((min, person) => person.id < min ? person.id : min, ...)
RECURSIVE reduceMin(_, _, _)
reduceMin(team, n, min) ==
  IF n > Len(team) THEN min
  ELSE reduceMin(team, n + 1, IF StrLess(team[n].id, min) THEN team[n].id ELSE min)

\* Mutant: the id of the team's first member is taken for its minimum.
minIdInTeam_first(firstTeam) == firstTeam[1].id

\* The minimum id of a non-empty team, the reduction starting at firstTeam[0].id.
minIdInTeam(firstTeam) == reduceMin(firstTeam, 1, firstTeam[1].id)

\* Mutant: a team whose minimum id equals the threshold is let through.
skipCombination_strict(lastMinId, minId) ==
  lastMinId # NULL /\ StrLess(minId, ValueOf(lastMinId))

\* Mutant: no combination is skipped.
skipCombination_never(lastMinId, minId) == FALSE

\* lastMinId !== null && minIdInTeam <= lastMinId
skipCombination(lastMinId, minId) ==
  lastMinId # NULL /\ StrLeq(minId, ValueOf(lastMinId))

Members(team) == {team[n] : n \in 1 .. Len(team)}

\* Mutant: only the first member of the team is taken out of the people.
remainingPeople_firstOnly(people, firstTeam) ==
  SelectSeq(people, LAMBDA p : p # firstTeam[1])

\* people.filter(p => !firstTeam.includes(p))
remainingPeople(people, firstTeam) ==
  SelectSeq(people, LAMBDA p : p \notin Members(firstTeam))

\* Mutant: the threshold is passed on whatever the next size.
nextMinId_always(sameSize, minId) == Some(minId)

\* nextTeamHasSameSize ? minIdInTeam : null
nextMinId(sameSize, minId) == IF sameSize THEN Some(minId) ELSE NULL

RECURSIVE generatePartitions(_, _, _)
RECURSIVE partitionsLoop(_, _, _, _, _)
generatePartitions(people, teamSizes, lastMinId) ==
  IF teamSizes = <<>> THEN Stream(<< <<>> >>, "none")
  ELSE LET combos == combinations(people, Head(teamSizes))
       IN  IF combos.err # "none" THEN Stream(<<>>, combos.err)
           ELSE partitionsLoop(people, teamSizes, lastMinId, combos.ys, 1)

\* for (const firstTeam of combinations(people, firstTeamSize)), from the
\* n-th combination on. An empty firstTeam has no firstTeam[0]: reading
\* its id throws a TypeError.
partitionsLoop(people, teamSizes, lastMinId, combos, n) ==
  IF n > Len(combos) THEN Stream(<<>>, "none")
  ELSE
    LET firstTeam == combos[n]
        remainingTeamSizes == Tail(teamSizes)
    IN  IF firstTeam = <<>> THEN Stream(<<>>, "TypeError")
        ELSE
          LET minId == minIdInTeam(firstTeam)
          IN  IF skipCombination(lastMinId, minId)
              THEN partitionsLoop(people, teamSizes, lastMinId, combos, n + 1)
              ELSE
                LET sub == generatePartitions(
                             remainingPeople(people, firstTeam),
                             remainingTeamSizes,
                             nextMinId(nextTeamHasSameSize(Head(teamSizes), remainingTeamSizes),
                                       minId))
                    mine == PrependAll(firstTeam, sub.ys)
                IN  IF sub.err # "none" THEN Stream(mine, sub.err)
                    ELSE
                      LET rest == partitionsLoop(people, teamSizes, lastMinId, combos, n + 1)
                      IN  Stream(mine \o rest.ys, rest.err)

\* ---------------------------------------------------------------- driver
VARIABLES
  people,               \* the request's people, in request order
  teamSizes,            \* the request's team sizes
  conflictMatrix,       \* the request's conflict matrix
  maxResultsArg,        \* the maxResults argument, NULL when it is not passed
  pc,                   \* the running call: "start", "loop", "returned", "threw"
  partitions,           \* what is left of generatePartitions' stream
  bestAssignments,      \* the running best list
  minScore,
  combinationsChecked,
  outcome,              \* what the call returned or threw
  previous,             \* the outcomes of the earlier calls on the same input
  body,                 \* the required fields the POST request's body carries
  response,             \* what the endpoint has sent
  direct,               \* a helper called on its own: its name and arguments
  directResult,         \* what that call gave, NULL while it has not run
  historyStore,         \* the history store's data
  mounted,              \* whether the Optimize screen is mounted
  candidates,           \* the mounted screen's candidates, each selected or not
  teamSizeInput,        \* the value bound to the team-size input
  results,              \* the mounted screen's results, NULL or a result
  loading,
  error,
  inFlight              \* the bag of requests sent to /api/optimize and not yet settled

vars == <<people, teamSizes, conflictMatrix, maxResultsArg, pc, partitions,
          bestAssignments, minScore, combinationsChecked, outcome, previous,
          body, response, direct, directResult,
          historyStore, mounted, candidates, teamSizeInput, results, loading,
          error, inFlight>>

screen == <<historyStore, mounted, candidates, teamSizeInput, results, loading,
            error, inFlight>>

endpoint == <<body, response>>

helper == <<direct, directResult>>

inputs == <<people, teamSizes, conflictMatrix, maxResultsArg>>

locals == <<partitions, bestAssignments, minScore, combinationsChecked>>

\* maxResults: number = 10
maxResults == IF maxResultsArg = NULL THEN DefaultMaxResults ELSE ValueOf(maxResultsArg)

NoOutcome == [kind |-> "none"]

Thrown(name) == [kind |-> "error", name |-> name]

\* `Team sizes sum (${totalPeopleNeeded}) doesn't match number of people
\* (${people.length})`
validationMessage(total, numPeople) ==
  <<"Team sizes sum", total, "doesn't match number of people", numPeople>>

\* new Error(message)
InvalidInput(total, numPeople) ==
  [kind |-> "error", name |-> "Error", message |-> validationMessage(total, numPeople)]

NoStream == Stream(<<>>, "none")

\* Mutant: a request with no people is refused as well.
sizesMismatch_orNobody(total, numPeople) == total # numPeople \/ numPeople = 0

\* Mutant: only a sum above the number of people is refused.
sizesMismatch_above(total, numPeople) == total > numPeople

\* totalPeopleNeeded !== people.length
sizesMismatch(total, numPeople) == total # numPeople

\* Mutant: an equal score counts as better.
isBetter_orEqual(score, min) == score <= min

\* score < minScore
isBetter(score, min) == score < min

\* Mutant: a tie is kept whatever the length of the list.
isTieWithRoom_noCap(score, min, best, cap) == score = min

\* Mutant: the list is closed one entry early.
isTieWithRoom_oneShort(score, min, best, cap) == score = min /\ Len(best) < cap - 1

\* score === minScore && bestAssignments.length < maxResults
isTieWithRoom(score, min, best, cap) == score = min /\ Len(best) < cap

\* { teams: partition.map(members => ({ members })), conflictScore: score }
Assignment(partition, score) == [teams |-> partition, conflictScore |-> score]

\* The best list after one partition has been scored.
updateBest(best, min, partition, score, cap) ==
  IF isBetter(score, min) THEN <<Assignment(partition, score)>>
  ELSE IF isTieWithRoom(score, min, best, cap) THEN Append(best, Assignment(partition, score))
  ELSE best

\* minScore after one partition has been scored.
updateMin(min, score) == IF isBetter(score, min) THEN score ELSE min

\* let bestAssignments = []
initialBest == <<>>

\* The validation throws.
ThrowInvalid ==
  /\ pc = "start"
  /\ sizesMismatch(totalPeopleNeeded(teamSizes), Len(people))
  /\ pc' = "threw"
  /\ outcome' = InvalidInput(totalPeopleNeeded(teamSizes), Len(people))
  /\ UNCHANGED <<inputs, endpoint, helper, locals, previous, screen>>

\* Mutant: the first size is taken off the caller's array (shift() for
\* slice(1)) when the generator is made.
Start_shiftsSizes ==
  /\ pc = "start"
  /\ ~sizesMismatch(totalPeopleNeeded(teamSizes), Len(people))
  /\ pc' = "loop"
  /\ bestAssignments' = initialBest
  /\ minScore' = Infinity
  /\ combinationsChecked' = 0
  /\ partitions' = generatePartitions(people, teamSizes, NULL)
  /\ teamSizes' = IF teamSizes = <<>> THEN <<>> ELSE Tail(teamSizes)
  /\ UNCHANGED <<people, conflictMatrix, maxResultsArg, endpoint, helper, outcome, previous, screen>>

\* Mutant: the counter is not set back when a call starts.
Start_keepsCounter ==
  /\ pc = "start"
  /\ ~sizesMismatch(totalPeopleNeeded(teamSizes), Len(people))
  /\ pc' = "loop"
  /\ bestAssignments' = initialBest
  /\ minScore' = Infinity
  /\ partitions' = generatePartitions(people, teamSizes, NULL)
  /\ UNCHANGED <<inputs, endpoint, helper, combinationsChecked, outcome, previous, screen>>

\* The validation passes: the accumulators are set and the generator is made.
Start ==
  /\ pc = "start"
  /\ ~sizesMismatch(totalPeopleNeeded(teamSizes), Len(people))
  /\ pc' = "loop"
  /\ bestAssignments' = initialBest
  /\ minScore' = Infinity
  /\ combinationsChecked' = 0
  /\ partitions' = generatePartitions(people, teamSizes, NULL)
  /\ UNCHANGED <<inputs, endpoint, helper, outcome, previous, screen>>

\* One iteration of for (const partition of generatePartitions(...)).
Pull ==
  /\ pc = "loop"
  /\ partitions.ys # <<>>
  /\ LET partition == Head(partitions.ys)
         score == calculateConflictScore(partition, conflictMatrix)
     IN  /\ combinationsChecked' = combinationsChecked + 1
         /\ bestAssignments' = updateBest(bestAssignments, minScore, partition, score, maxResults)
         /\ minScore' = updateMin(minScore, score)
  /\ partitions' = [partitions EXCEPT !.ys = Tail(@)]
  /\ UNCHANGED <<inputs, endpoint, helper, pc, outcome, previous, screen>>

\* The generator throws when it is pulled: optimizeTeams does not catch.
GeneratorThrows ==
  /\ pc = "loop"
  /\ partitions.ys = <<>>
  /\ partitions.err # "none"
  /\ pc' = "threw"
  /\ outcome' = Thrown(partitions.err)
  /\ UNCHANGED <<inputs, endpoint, helper, locals, previous, screen>>

\* The stream is exhausted: the result is returned. executionTimeMs is the
\* difference of two readings of the clock.
Return ==
  /\ pc = "loop"
  /\ partitions.ys = <<>>
  /\ partitions.err = "none"
  /\ pc' = "returned"
  /\ \E elapsed \in 0 .. MaxElapsed :
       outcome' = [kind |-> "result",
                   bestAssignments |-> Slice0(bestAssignments, maxResults),
                   totalCombinationsChecked |-> combinationsChecked,
                   executionTimeMs |-> elapsed]
  /\ UNCHANGED <<inputs, endpoint, helper, locals, previous, screen>>

\* optimizeTeams is called again with the same arguments. The locals of the
\* new call hold nothing the call may read before Start assigns them.
CallAgain ==
  /\ pc \in {"returned", "threw"}
  /\ previous = <<>>
  /\ pc' = "start"
  /\ previous' = Append(previous, outcome)
  /\ outcome' = NoOutcome
  /\ UNCHANGED <<inputs, endpoint, helper, locals, screen>>

\* -------------------------------------------------------------- endpoint
\* const { people, teamSizes, conflictMatrix } = req.body
RequiredFields == {"people", "teamSizes", "conflictMatrix"}

NoResponse == [status |-> 0]

\* !people || !teamSizes || !conflictMatrix: body is the set of the
\* required fields the request carries with a truthy value.
missingFields(fields) == RequiredFields \ fields # {}

\* res.json(results)
resultResponse(found) ==
  [status |-> 200,
   json |-> [bestAssignments |-> found.bestAssignments,
             totalCombinationsChecked |-> found.totalCombinationsChecked,
             executionTimeMs |-> found.executionTimeMs]]

\* res.status(status).json({ error: message }); a message is the sequence
\* of its parts.
errorResponse(status, message) == [status |-> status, json |-> [error |-> message]]

\* A required field is missing: 400, and optimizeTeams is not called.
RejectMissing ==
  /\ pc = "handler"
  /\ missingFields(body)
  /\ response' = errorResponse(400, <<"Missing required fields">>)
  /\ pc' = "responded"
  /\ UNCHANGED <<inputs, locals, outcome, previous, body, helper, screen>>

\* The fields are there: the handler calls optimizeTeams.
CallOptimize ==
  /\ pc = "handler"
  /\ ~missingFields(body)
  /\ pc' = "start"
  /\ UNCHANGED <<inputs, locals, outcome, previous, endpoint, helper, screen>>

\* optimizeTeams returned: the handler sends the result.
RespondResult ==
  /\ pc = "returned"
  /\ response' = resultResponse(outcome)
  /\ pc' = "responded"
  /\ UNCHANGED <<inputs, locals, outcome, previous, body, helper, screen>>

\* catch (error): the error goes to the console, the client gets a fixed text.
caughtMessage(err) == <<"Internal server error">>

\* optimizeTeams threw: the handler's catch answers.
RespondError ==
  /\ pc = "threw"
  /\ response' = errorResponse(500, caughtMessage(outcome))
  /\ pc' = "responded"
  /\ UNCHANGED <<inputs, locals, outcome, previous, body, helper, screen>>

\* ------------------------------------------------------------- front end
\* calculateTeamSizes(totalPeople, teamSize), which its callers reach with
\* teamSize >= 1 only (the preview asks parseInt(teamSizeInput) > 0, the
\* submission teamSize >= 2): Math.floor(totalPeople / teamSize) teams of
\* teamSize, then the remainder, when there is one, as a last team.
calculateTeamSizes(totalPeople, teamSize) ==
  LET numFullTeams == totalPeople \div teamSize
      remainder == totalPeople % teamSize
      sizes == [i \in 1 .. numFullTeams |-> teamSize]
  IN  IF remainder > 0 THEN Append(sizes, remainder) ELSE sizes

\* ------------------------------------------------- helpers called directly
NoDirect == [fn |-> "none"]

\* combinations(array, k) is called and drained.
ApplyCombinations ==
  /\ direct.fn = "combinations"
  /\ directResult = NULL
  /\ directResult' = Some(combinations(direct.array, direct.k))
  /\ UNCHANGED <<inputs, locals, pc, outcome, previous, endpoint, direct, screen>>

\* calculateTeamSizes(totalPeople, teamSize) is called.
ApplyCalculateTeamSizes ==
  /\ direct.fn = "calculateTeamSizes"
  /\ directResult = NULL
  /\ directResult' = Some(calculateTeamSizes(direct.totalPeople, direct.teamSize))
  /\ UNCHANGED <<inputs, locals, pc, outcome, previous, endpoint, direct, screen>>

\* --------------------------------------------------------------- inputs
RECURSIVE SeqsUpTo(_, _)
SeqsUpTo(S, n) ==
  IF n = 0 THEN {<<>>}
  ELSE LET shorter == SeqsUpTo(S, n - 1)
       IN  shorter \cup {Append(s, x) : s \in {t \in shorter : Len(t) = n - 1}, x \in S}

HasUniqueIds(ids) == \A m, n \in 1 .. Len(ids) : m # n => ids[m] # ids[n]

\* The people array of a request whose persons carry the given ids.
PeopleOf(ids) == [n \in 1 .. Len(ids) |-> [ref |-> n, id |-> ids[n]]]

IdsOf(persons) == [n \in 1 .. Len(persons) |-> persons[n].id]

\* Every array of persons with distinct ids from the pool, in every order.
UniquePeople == {PeopleOf(ids) : ids \in {s \in SeqsUpTo(IdPool, MaxPeople) : HasUniqueIds(s)}}

AllPositive(sizes) == \A n \in 1 .. Len(sizes) : sizes[n] > 0

\* What the input contract asks of teamSizes for the given people.
WellFormed(persons, sizes) ==
  AllPositive(sizes) /\ totalPeopleNeeded(sizes) = Len(persons)

TeamSizeSeqs == SeqsUpTo(-1 .. MaxPeople + 1, MaxSlots)

\* The matrices over the pairs that may be populated, counts up to MaxCount;
\* a pair with count 0 is left out of the matrix.
Matrices ==
  {[pr \in {q \in PopulatedPairs : full[q] > 0} |-> full[pr]] :
     full \in [PopulatedPairs -> 0 .. MaxCount]}

EmptyMatrix == [pr \in {} |-> 0]

MaxResultsArgs == {NULL} \cup {Some(n) : n \in 1 .. MaxResultsArg}

\* ------------------------------------------------- optimize screen: state
\* const initialState: HistoryData (the graph's nodes and edges are left out).
initialState ==
  [people |-> <<>>, conflictMatrix |-> EmptyMatrix, hasData |-> FALSE,
   optimizationResults |-> NULL]

\* A value of the team-size input: the string the component starts with
\* (its digits), a number the user typed (in halves, so that 2.5 is 5), or
\* nothing (the input is empty).
InputString(digits) == [kind |-> "string", digits |-> digits, halves |-> 0]

InputNumber(halves) == [kind |-> "number", digits |-> <<>>, halves |-> halves]

InputEmpty == [kind |-> "empty", digits |-> <<>>, halves |-> 0]

\* let teamSizeInput = $state('3')
InitialTeamSizeInput == InputString(<<3>>)

\* let error = $state('')
NoError == <<>>

\* The component's state as it is declared, before onMount has run.
DeclaredState ==
  /\ candidates = <<>>
  /\ teamSizeInput = InitialTeamSizeInput
  /\ results = NULL
  /\ loading = FALSE
  /\ error = NoError

\* The store as it is created, the Optimize screen not mounted, nothing sent.
NoScreen ==
  /\ historyStore = initialState
  /\ mounted = FALSE
  /\ DeclaredState
  /\ inFlight = EmptyBag

\* No call of optimizeTeams has begun.
InitLocals ==
  /\ partitions = NoStream
  /\ bestAssignments = <<>>
  /\ minScore = 0
  /\ combinationsChecked = 0
  /\ outcome = NoOutcome
  /\ previous = <<>>

\* optimizeTeams is called by itself: no request, no helper on its own.
InitCall ==
  /\ pc = "start"
  /\ InitLocals
  /\ body = RequiredFields
  /\ response = NoResponse
  /\ direct = NoDirect
  /\ directResult = NULL
  /\ NoScreen

\* The requests: every request that meets the input contract, and every
\* other size sequence with the empty matrix (a size sequence that is not
\* well formed has no partition, so the matrix is never read).
Init ==
  /\ people \in UniquePeople
  /\ teamSizes \in TeamSizeSeqs
  /\ IF WellFormed(people, teamSizes)
     THEN conflictMatrix \in Matrices /\ maxResultsArg \in MaxResultsArgs
     ELSE conflictMatrix = EmptyMatrix /\ maxResultsArg = NULL
  /\ InitCall

Next ==
  \/ ThrowInvalid
  \/ Start
  \/ Pull
  \/ GeneratorThrows
  \/ Return

Spec == Init /\ [][Next]_vars

\* The same input is submitted a second time once the first call is over.
NextTwice ==
  \/ Next
  \/ CallAgain

\* The requests of Init whose matrix populates at most one pair.
InitTwice ==
  /\ Init
  /\ Cardinality(DOMAIN conflictMatrix) <= 1

SpecTwice == InitTwice /\ [][NextTwice]_vars

\* The requests of InitTwice that meet the input contract or have at most
\* one slot.
InitFair ==
  /\ InitTwice
  /\ WellFormed(people, teamSizes) \/ Len(teamSizes) <= 1

\* Start can be taken: the call has begun and the validation passes. This
\* is ENABLED <<Start>>_vars, since Start assigns every variable it changes
\* and always changes pc.
StartEnabled ==
  pc = "start" /\ ~sizesMismatch(totalPeopleNeeded(teamSizes), Len(people))

\* Weak fairness of Start, with StartEnabled for ENABLED <<Start>>_vars.
FairStart == []<>(~StartEnabled) \/ []<><<Start>>_vars

\* optimizeTeams is synchronous and single-threaded: once called it runs
\* until it returns or throws, so a step that can be taken is taken.
SpecFair ==
  /\ InitFair /\ [][Next]_vars
  /\ WF_vars(ThrowInvalid) /\ FairStart /\ WF_vars(Pull)
  /\ WF_vars(GeneratorThrows) /\ WF_vars(Return)

\* The ids "1", "2", "3", "4", in that order.
ScenarioPeople == PeopleOf(<< <<1>>, <<2>>, <<3>>, <<4>> >>)

\* {} and {"1": {"2": c}}.
ScenarioMatrices ==
  {EmptyMatrix} \cup {[pr \in {<< <<1>>, <<2>> >>} |-> c] : c \in 1 .. MaxScenarioCount}

\* The four people of the worked scenario with every size sequence, every
\* weight of the one populated pair and every cap.
InitScenario ==
  /\ people = ScenarioPeople
  /\ teamSizes \in TeamSizeSeqs
  /\ IF WellFormed(people, teamSizes)
     THEN conflictMatrix \in ScenarioMatrices /\ maxResultsArg \in MaxResultsArgs
     ELSE conflictMatrix = EmptyMatrix /\ maxResultsArg = NULL
  /\ InitCall

SpecScenario == InitScenario /\ [][Next]_vars

\* The requests POST /api/optimize receives: a body that lacks some required
\* field, or a body with all three; the handler passes no maxResults.
InitEndpoint ==
  /\ body \in SUBSET RequiredFields
  /\ IF missingFields(body)
     THEN people = <<>> /\ teamSizes = <<>> /\ conflictMatrix = EmptyMatrix
     ELSE /\ people \in UniquePeople
          /\ teamSizes \in TeamSizeSeqs
          /\ IF WellFormed(people, teamSizes)
             THEN conflictMatrix \in {m \in Matrices : Cardinality(DOMAIN m) <= 1}
             ELSE conflictMatrix = EmptyMatrix
  /\ maxResultsArg = NULL
  /\ pc = "handler"
  /\ InitLocals
  /\ response = NoResponse
  /\ direct = NoDirect
  /\ directResult = NULL
  /\ NoScreen

NextEndpoint ==
  \/ RejectMissing
  \/ CallOptimize
  \/ Next
  \/ RespondResult
  \/ RespondError

SpecEndpoint == InitEndpoint /\ [][NextEndpoint]_vars

\* The arrays combinations is called on directly: up to MaxPeople persons,
\* ids from the pool, repeated ids included.
DirectArrays == {PeopleOf(ids) : ids \in SeqsUpTo(IdPool, MaxPeople)}

\* A helper is called on its own: combinations on an array and a k from
\* below 0 to above the array's length, or calculateTeamSizes on a number of
\* selected people and a team size.
InitHelpers ==
  /\ \/ \E array \in DirectArrays, k \in -1 .. MaxPeople + 1 :
          direct = [fn |-> "combinations", array |-> array, k |-> k]
     \/ \E totalPeople \in 1 .. MaxTotalPeople, teamSize \in 1 .. MaxTeamSize :
          direct = [fn |-> "calculateTeamSizes", totalPeople |-> totalPeople, teamSize |-> teamSize]
  /\ directResult = NULL
  /\ people = <<>> /\ teamSizes = <<>> /\ conflictMatrix = EmptyMatrix
  /\ maxResultsArg = NULL
  /\ pc = "idle"
  /\ InitLocals
  /\ body = RequiredFields
  /\ response = NoResponse
  /\ NoScreen

NextHelpers ==
  \/ ApplyCombinations
  \/ ApplyCalculateTeamSizes

SpecHelpers == InitHelpers /\ [][NextHelpers]_vars

\* Requests whose people may share ids: every array of up to MaxPeople
\* persons with ids from the pool, with the sizes that meet the input
\* contract or have at most one slot.
InitSharedIds ==
  /\ people \in DirectArrays
  /\ teamSizes \in TeamSizeSeqs
  /\ WellFormed(people, teamSizes) \/ Len(teamSizes) <= 1
  /\ IF WellFormed(people, teamSizes)
     THEN /\ conflictMatrix \in {m \in Matrices : Cardinality(DOMAIN m) <= 1}
          /\ maxResultsArg \in MaxResultsArgs
     ELSE conflictMatrix = EmptyMatrix /\ maxResultsArg = NULL
  /\ InitCall

SpecSharedIds == InitSharedIds /\ [][Next]_vars

\* Both generators at work: combinations called on its own, and
\* generatePartitions called by optimizeTeams.
InitGenerators == InitHelpers \/ InitTwice

NextGenerators ==
  \/ NextHelpers
  \/ Next

SpecGenerators == InitGenerators /\ [][NextGenerators]_vars

\* ------------------------------------------------- what the claims speak of
\* Every way to put the persons into the slots, each slot with its declared
\* number of persons, whatever the ids: one team per slot, the members of a
\* team in request order.
AllPartitions(persons, sizes) ==
  LET slots == 1 .. Len(sizes)
      fits(f) == \A i \in slots :
                   Cardinality({n \in 1 .. Len(persons) : f[n] = i}) = sizes[i]
      teamOf(f, i) == SelectSeq(persons, LAMBDA p : f[p.ref] = i)
  IN  {[i \in slots |-> teamOf(f, i)] : f \in {g \in [1 .. Len(persons) -> slots] : fits(g)}}

MinOf(S) == CHOOSE m \in S : \A x \in S : m <= x

Range(seq) == {seq[n] : n \in 1 .. Len(seq)}

\* The partitions the generator yields for the request, from the first on.
Enumerated == generatePartitions(people, teamSizes, NULL).ys

\* The partitions of a stream that attain its minimum score, in the
\* stream's order, as assignments.
RECURSIVE TiesOf(_, _, _)
TiesOf(stream, matrix, least) ==
  IF stream = <<>> THEN <<>>
  ELSE (IF calculateConflictScore(Head(stream), matrix) = least
        THEN <<Assignment(Head(stream), least)>> ELSE <<>>)
       \o TiesOf(Tail(stream), matrix, least)

\* The enumerated partitions that attain the minimum score, in generation
\* order, as assignments.
TiedBest ==
  LET stream == Enumerated
      least == MinOf({calculateConflictScore(stream[n], conflictMatrix) : n \in 1 .. Len(stream)})
  IN  TiesOf(stream, conflictMatrix, least)

Returned == pc = "returned"

ValidRequest == WellFormed(people, teamSizes) /\ HasUniqueIds(IdsOf(people))

\* C1: with unique ids and positive sizes that sum to the number of people,
\* every returned assignment has the minimum score over all the partitions
\* of the people into the slots, the pruned ones included, and the pruning
\* leaves at least one of them to return.
C1_OptimumOverAllPartitions ==
  (Returned /\ ValidRequest) =>
    LET least == MinOf({calculateConflictScore(q, conflictMatrix) :
                          q \in AllPartitions(people, teamSizes)})
    IN  /\ outcome.bestAssignments # <<>>
        /\ \A n \in 1 .. Len(outcome.bestAssignments) :
             outcome.bestAssignments[n].conflictScore = least

\* A call returned after the pruning left partitions out, some partition
\* scoring above the returned minimum.
C1_Witness ==
  /\ Returned /\ ValidRequest
  /\ combinationsChecked < Cardinality(AllPartitions(people, teamSizes))
  /\ outcome.bestAssignments # <<>>
  /\ \E q \in AllPartitions(people, teamSizes) :
       calculateConflictScore(q, conflictMatrix) > outcome.bestAssignments[1].conflictScore

\* teams is a partition of persons into the slots of sizes.
IsPartitionOf(teams, persons, sizes) ==
  /\ Len(teams) = Len(sizes)
  /\ \A i \in 1 .. Len(teams) : Len(teams[i]) = sizes[i]
  /\ \A i \in 1 .. Len(teams) : Members(teams[i]) \subseteq Range(persons)
  /\ \A p \in Range(persons) :
       Cardinality({ij \in (1 .. Len(teams)) \X (1 .. MaxPeople) :
                      ij[2] <= Len(teams[ij[1]]) /\ teams[ij[1]][ij[2]] = p}) = 1

\* C2: for a valid input every returned assignment is a partition of the
\* people: one team per slot, slot i with teamSizes[i] members, every person
\* in exactly one place.
C2_AssignmentsArePartitions ==
  (Returned /\ WellFormed(people, teamSizes)) =>
    \A n \in 1 .. Len(outcome.bestAssignments) :
      IsPartitionOf(outcome.bestAssignments[n].teams, people, teamSizes)

\* A call returned assignments of several teams, one of them of two or more.
C2_Witness ==
  /\ Returned /\ WellFormed(people, teamSizes)
  /\ Len(teamSizes) >= 2
  /\ \E i \in 1 .. Len(teamSizes) : teamSizes[i] >= 2
  /\ Len(outcome.bestAssignments) >= 2

\* conflict(a, b) as the data model states it: matrix[a][b] if present,
\* otherwise matrix[b][a] if present, otherwise 0.
SymmetricConflict(matrix, a, b) ==
  IF <<a, b>> \in DOMAIN matrix THEN matrix[<<a, b>>]
  ELSE IF <<b, a>> \in DOMAIN matrix THEN matrix[<<b, a>>]
  ELSE 0

RECURSIVE SumOver(_, _)
SumOver(S, f) ==
  IF S = {} THEN 0
  ELSE LET x == CHOOSE y \in S : TRUE IN f[x] + SumOver(S \ {x}, f)

\* The sum over every team and every unordered pair of its members.
SymmetricScore(teams, matrix) ==
  LET pairs == {t \in (1 .. Len(teams)) \X (1 .. MaxPeople) \X (1 .. MaxPeople) :
                  t[2] < t[3] /\ t[3] <= Len(teams[t[1]])}
  IN  SumOver(pairs, [t \in pairs |->
        SymmetricConflict(matrix, teams[t[1]][t[2]].id, teams[t[1]][t[3]].id)])

\* C3: the conflictScore of a returned partition is the sum over its teams'
\* unordered pairs of conflict(a, b), which reads matrix[a][b] and falls back
\* on matrix[b][a]: a pair stored in one direction only still counts.
C3_ScoreReadsBothDirections ==
  (Returned /\ ValidRequest) =>
    \A n \in 1 .. Len(outcome.bestAssignments) :
      outcome.bestAssignments[n].conflictScore =
        SymmetricScore(outcome.bestAssignments[n].teams, conflictMatrix)

\* The orders a sequence can be put in.
OrdersOf(seq) ==
  {[n \in 1 .. Len(seq) |-> seq[f[n]]] :
     f \in {g \in [1 .. Len(seq) -> 1 .. Len(seq)] : \A m, n \in 1 .. Len(seq) : m # n => g[m] # g[n]}}

\* The partitions got from teams by reordering the members inside the teams.
RECURSIVE MemberReorderings(_)
MemberReorderings(teams) ==
  IF teams = <<>> THEN {<<>>}
  ELSE {<<t>> \o rest : t \in OrdersOf(Head(teams)), rest \in MemberReorderings(Tail(teams))}

\* ... and by reordering the teams as well.
Reorderings(teams) == UNION {OrdersOf(r) : r \in MemberReorderings(teams)}

\* C4: calculateConflictScore gives a returned partition the same value
\* after any reordering of the members inside its teams and of its teams,
\* for every conflict matrix.
C4_ScoreIgnoresOrder ==
  (Returned /\ ValidRequest) =>
    \A n \in 1 .. Len(outcome.bestAssignments) :
      \A r \in Reorderings(outcome.bestAssignments[n].teams) :
        calculateConflictScore(r, conflictMatrix) =
          calculateConflictScore(outcome.bestAssignments[n].teams, conflictMatrix)

\* C5: when the sizes do not sum to the number of people the call throws the
\* validation error before the search: no generator is made, nothing is
\* counted or kept, and no result is returned.
C5_MismatchThrowsBeforeSearch ==
  (totalPeopleNeeded(teamSizes) # Len(people)) =>
    /\ pc \in {"start", "threw"}
    /\ partitions = NoStream
    /\ combinationsChecked = 0
    /\ bestAssignments = <<>>
    /\ outcome.kind # "result"
    /\ pc = "threw" => outcome = InvalidInput(totalPeopleNeeded(teamSizes), Len(people))

\* A call on two or more people threw on positive sizes that sum to fewer.
C5_Witness ==
  /\ pc = "threw"
  /\ totalPeopleNeeded(teamSizes) < Len(people)
  /\ AllPositive(teamSizes)
  /\ Len(people) >= 2

\* C6: a zero or negative size makes the call throw the validation error
\* before any partition is generated or scored, also when the sizes sum to
\* the number of people.
C6_NonPositiveSizeIsRefused ==
  (~AllPositive(teamSizes)) =>
    /\ pc \in {"start", "threw"}
    /\ partitions = NoStream
    /\ pc = "threw" => outcome.name = "Error"

SameButTime(a, b) ==
  /\ a.kind = b.kind
  /\ a.kind = "error" => a = b
  /\ a.kind = "result" =>
       /\ a.bestAssignments = b.bestAssignments
       /\ a.totalCombinationsChecked = b.totalCombinationsChecked

RunOf(sizes, i) ==
  {j \in 1 .. Len(sizes) :
     \A m \in 1 .. Len(sizes) :
       ((i <= m /\ m <= j) \/ (j <= m /\ m <= i)) => sizes[m] = sizes[i]}

\* The persons of a team, by identity.
Refs(team) == {team[n].ref : n \in 1 .. Len(team)}

\* What a partition keeps when the teams inside every run are permuted: for
\* each slot, the set of the teams (as sets of persons) of the slot's run.
ClassOf(p, runs) == [i \in 1 .. Len(runs) |-> {Refs(p[j]) : j \in runs[i]}]

\* For each slot from slot i on, the slots of its run.
RECURSIVE RunsFrom(_, _)
RunsFrom(sizes, i) ==
  IF i > Len(sizes) THEN <<>> ELSE <<RunOf(sizes, i)>> \o RunsFrom(sizes, i + 1)

RunsOf(sizes) == RunsFrom(sizes, 1)

\* The generator has just been made: partitions holds its whole stream.
FreshStream == pc = "loop" /\ combinationsChecked = 0 /\ bestAssignments = <<>> /\ minScore = Infinity

\* C10: with unique ids, of the slot-ordered partitions that differ only by
\* permuting the teams inside a maximal run of consecutive equal sizes the
\* generator yields exactly one: never two (no two yields are of one class)
\* and never none (the classes yielded are the classes of all partitions).
C10_OnePerClass ==
  (FreshStream /\ ValidRequest) =>
    LET runs == RunsOf(teamSizes)
        yielded == {ClassOf(partitions.ys[n], runs) : n \in 1 .. Len(partitions.ys)}
    IN  /\ partitions.err = "none"
        /\ Cardinality(yielded) = Len(partitions.ys)
        /\ yielded = {ClassOf(q, runs) : q \in AllPartitions(people, teamSizes)}

\* A stream for two or more equal slots of two or more persons, shorter than
\* the set of all partitions.
C10_Witness ==
  /\ FreshStream /\ ValidRequest
  /\ \E i \in 1 .. Len(teamSizes) - 1 : teamSizes[i] = teamSizes[i + 1] /\ teamSizes[i] >= 2
  /\ Len(partitions.ys) < Cardinality(AllPartitions(people, teamSizes))

RECURSIVE Factorial(_)
Factorial(n) == IF n <= 0 THEN 1 ELSE n * Factorial(n - 1)

RECURSIVE Power(_, _)
Power(b, e) == IF e = 0 THEN 1 ELSE b * Power(b, e - 1)

RECURSIVE ProductOver(_, _)
ProductOver(S, f) ==
  IF S = {} THEN 1
  ELSE LET x == CHOOSE y \in S : TRUE IN f[x] * ProductOver(S \ {x}, f)

\* N! / (s1! * ... * sk!) for the sizes s1 .. sk that sum to N.
Multinomial(sizes) ==
  Factorial(totalPeopleNeeded(sizes))
    \div ProductOver(1 .. Len(sizes), [i \in 1 .. Len(sizes) |-> Factorial(sizes[i])])

\* The maximal runs of adjacent equal sizes, each as its set of slots.
MaximalRuns(sizes) == Range(RunsOf(sizes))

SwapTeams(p, i, j) ==
  [n \in 1 .. Len(p) |-> IF n = i THEN p[j] ELSE IF n = j THEN p[i] ELSE p[n]]

\* Two slots of equal size that are not adjacent, each with neighbours of
\* other sizes only, as the outer slots of [1, 2, 1] and of [3, 4, 3].
ApartEqualSlots(sizes) ==
  {ij \in (1 .. Len(sizes)) \X (1 .. Len(sizes)) :
     /\ ij[1] < ij[2]
     /\ sizes[ij[1]] = sizes[ij[2]]
     /\ RunOf(sizes, ij[1]) = {ij[1]}
     /\ RunOf(sizes, ij[2]) = {ij[2]}}

\* C13: slots of equal size that are not adjacent are not deduplicated
\* against each other: with every yielded partition the generator also
\* yields the partition that has the teams of the two slots exchanged.
C13_ApartSlotsBothOrders ==
  (FreshStream /\ ValidRequest) =>
    \A ij \in ApartEqualSlots(teamSizes) :
      \A n \in 1 .. Len(partitions.ys) :
        SwapTeams(partitions.ys[n], ij[1], ij[2]) \in Range(partitions.ys)

\* The stream for the sizes [1, 2, 1] holds a partition and, later, the one
\* with the two single-person teams exchanged.
C13_Witness ==
  /\ FreshStream /\ ValidRequest
  /\ teamSizes = <<1, 2, 1>>
  /\ \E m, n \in 1 .. Len(partitions.ys) :
       /\ m < n
       /\ partitions.ys[n] = SwapTeams(partitions.ys[m], 1, 3)

\* C14: with teamSizes = [N] for N people exactly one partition is examined,
\* bestAssignments has exactly one assignment, a single team of everyone,
\* and its conflictScore is the sum of conflict(a, b) over all the unordered
\* pairs of people.
C14_SingleTeamOfEveryone ==
  (Returned /\ ValidRequest /\ Len(teamSizes) = 1) =>
    /\ outcome.totalCombinationsChecked = 1
    /\ Len(outcome.bestAssignments) = 1
    /\ outcome.bestAssignments[1].teams = <<people>>
    /\ outcome.bestAssignments[1].conflictScore = SymmetricScore(<<people>>, conflictMatrix)

\* The request of scenario A: ids 1, 2, 3, 4 in that order, the matrix
\* {"1": {"2": 5}}, the sizes [2, 2], maxResults not passed.
ScenarioA ==
  /\ people = ScenarioPeople
  /\ teamSizes = <<2, 2>>
  /\ conflictMatrix = [pr \in {<< <<1>>, <<2>> >>} |-> 5]
  /\ maxResultsArg = NULL

\* The partition {a, b} | {c, d} of the scenario's people, by position.
Pairing(a, b, c, d) == << <<people[a], people[b]>>, <<people[c], people[d]>> >>

\* C15: on scenario A optimizeTeams examines exactly the three partitions
\* {1,2}|{3,4} (score 5), {1,3}|{2,4} (score 0) and {1,4}|{2,3} (score 0),
\* and bestAssignments holds exactly the two partitions of score 0.
C15_ScenarioA ==
  (Returned /\ ScenarioA) =>
    /\ outcome.totalCombinationsChecked = 3
    /\ Enumerated = <<Pairing(1, 2, 3, 4), Pairing(1, 3, 2, 4), Pairing(1, 4, 2, 3)>>
    /\ calculateConflictScore(Pairing(1, 2, 3, 4), conflictMatrix) = 5
    /\ Len(outcome.bestAssignments) = 2
    /\ Range(outcome.bestAssignments) =
         {Assignment(Pairing(1, 3, 2, 4), 0), Assignment(Pairing(1, 4, 2, 3), 0)}

\* The call on scenario A returned.
C15_Witness ==
  /\ Returned /\ ScenarioA
  /\ outcome.totalCombinationsChecked = 3
  /\ Len(outcome.bestAssignments) = 2

\* combinations was called on its own and has been drained.
CombinationsDone == direct.fn = "combinations" /\ directResult # NULL

\* C16: combinations(S, 0) yields exactly one result, the empty subset, for
\* every S, the empty sequence included; combinations(S, k) yields nothing
\* when k > |S|.
C16_CombinationsEdges ==
  CombinationsDone =>
    LET yielded == ValueOf(directResult)
    IN  /\ direct.k = 0 => yielded = Stream(<< <<>> >>, "none")
        /\ direct.k > Len(direct.array) => yielded = Stream(<<>>, "none")

\* combinations([], 0) has been drained.
C16_Witness ==
  /\ CombinationsDone
  /\ direct.array = <<>>
  /\ direct.k = 0
  /\ Len(ValueOf(directResult).ys) = 1

Binomial(n, k) == Factorial(n) \div (Factorial(k) * Factorial(n - k))

\* C17: for 0 <= k <= |S| combinations(S, k) yields exactly C(|S|, k)
\* results, each of k elements of S at strictly increasing positions (so in
\* the relative order of S), no two of them at the same set of positions.
C17_CombinationsCount ==
  (CombinationsDone /\ 0 <= direct.k /\ direct.k <= Len(direct.array)) =>
    LET yielded == ValueOf(directResult)
        S == direct.array
        k == direct.k
    IN  /\ yielded.err = "none"
        /\ Len(yielded.ys) = Binomial(Len(S), k)
        /\ \A n \in 1 .. Len(yielded.ys) :
             LET combo == yielded.ys[n]
             IN  /\ Len(combo) = k
                 /\ \A a \in 1 .. k : combo[a] = S[combo[a].ref]
                 /\ \A a, b \in 1 .. k : a < b => combo[a].ref < combo[b].ref
        /\ \A m, n \in 1 .. Len(yielded.ys) :
             m # n => Refs(yielded.ys[m]) # Refs(yielded.ys[n])

\* combinations of two out of four persons has been drained: six results.
C17_Witness ==
  /\ CombinationsDone
  /\ Len(direct.array) = 4
  /\ direct.k = 2
  /\ Len(ValueOf(directResult).ys) = 6

\* C18: for every valid input (positive sizes that sum to the number of
\* people) a call of optimizeTeams that has begun comes to its end with a
\* result object: the stream is exhausted and nothing is thrown.
C18_ValidCallReturns ==
  (pc = "start" /\ WellFormed(people, teamSizes))
    ~> (pc = "returned" /\ outcome.kind = "result" /\ partitions.ys = <<>>)

\* A call on a valid input returned after it pulled several partitions.
C18_Witness ==
  /\ Returned /\ WellFormed(people, teamSizes)
  /\ outcome.kind = "result"
  /\ outcome.totalCombinationsChecked >= 3

\* C19: when the request's input fails the optimizer's validation, the
\* endpoint's answer carries the message about the validation failure under
\* "error" and none of the result fields.
C19_ValidationFailureIsReported ==
  (pc = "responded" /\ ~missingFields(body)
     /\ sizesMismatch(totalPeopleNeeded(teamSizes), Len(people))) =>
    /\ DOMAIN response.json = {"error"}
    /\ response.json.error = validationMessage(totalPeopleNeeded(teamSizes), Len(people))

\* C20: the sizes calculateTeamSizes returns sum to the number of selected
\* people, and any two of them differ by at most 1.
C20_EvenDistribution ==
  (direct.fn = "calculateTeamSizes" /\ directResult # NULL) =>
    LET sizes == ValueOf(directResult)
    IN  /\ totalPeopleNeeded(sizes) = direct.totalPeople
        /\ \A m, n \in 1 .. Len(sizes) : sizes[m] - sizes[n] <= 1

\* The least id of a non-empty team under string comparison.
LeastId(team) ==
  CHOOSE id \in {team[n].id : n \in 1 .. Len(team)} :
    \A n \in 1 .. Len(team) : StrLeq(id, team[n].id)

\* C21: in every partition the generator yields, for every two consecutive
\* slots of equal declared size the least id of the first team is strictly
\* below the least id of the second, under string comparison: a candidate
\* team at or below the threshold is never part of a yielded partition.
C21_AscendingMinIds ==
  FreshStream =>
    \A n \in 1 .. Len(partitions.ys) :
      \A i \in 1 .. Len(teamSizes) - 1 :
        teamSizes[i] = teamSizes[i + 1] =>
          StrLess(LeastId(partitions.ys[n][i]), LeastId(partitions.ys[n][i + 1]))

\* A stream with a partition whose consecutive equal slots have the least
\* ids "10" and "2": ascending as strings, descending as numbers.
C21_Witness ==
  /\ FreshStream /\ ValidRequest
  /\ \E n \in 1 .. Len(partitions.ys) :
       \E i \in 1 .. Len(teamSizes) - 1 :
         /\ teamSizes[i] = teamSizes[i + 1]
         /\ LeastId(partitions.ys[n][i]) = <<1, 0>>
         /\ LeastId(partitions.ys[n][i + 1]) = <<2>>

\* The scores of the first n partitions of a stream, in order.
ScoresOf(stream, n, matrix) == [m \in 1 .. n |-> calculateConflictScore(stream[m], matrix)]

\* C22: after each partition is processed (maxResults >= 1) minScore is the
\* minimum score of the partitions processed so far, every entry of the best
\* list has that score, the list is not empty and no longer than maxResults,
\* and a partition strictly better than all before it leaves the list with
\* that partition alone; the returned bestAssignments is no longer than
\* maxResults.
C22_AccumulatorInvariant ==
  /\ (pc = "loop" /\ combinationsChecked >= 1 /\ maxResults >= 1) =>
       LET stream == Enumerated
           done == combinationsChecked
           scores == ScoresOf(stream, done, conflictMatrix)
       IN  /\ minScore = MinOf(Range(scores))
           /\ bestAssignments # <<>>
           /\ Len(bestAssignments) <= maxResults
           /\ \A n \in 1 .. Len(bestAssignments) : bestAssignments[n].conflictScore = minScore
           /\ (\A m \in 1 .. done - 1 : scores[done] < scores[m]) =>
                bestAssignments = <<Assignment(stream[done], scores[done])>>
  /\ Returned => Len(outcome.bestAssignments) <= maxResults

\* A partition strictly better than the two before it has just replaced a
\* list of two ties.
C22_Witness ==
  /\ pc = "loop" /\ combinationsChecked >= 3
  /\ LET stream == Enumerated
         scores == ScoresOf(stream, combinationsChecked, conflictMatrix)
     IN  /\ \A m \in 1 .. combinationsChecked - 1 : scores[combinationsChecked] < scores[m]
         /\ scores[combinationsChecked - 1] = scores[combinationsChecked - 2]
  /\ maxResults >= 2
  /\ Len(bestAssignments) = 1

\* a is before b in lexicographic order (two sequences of numbers of one length).
LexLess(a, b) ==
  \E i \in 1 .. Len(a) : a[i] < b[i] /\ \A j \in 1 .. i - 1 : a[j] = b[j]

\* The positions in the input of the members of a team, in the team's order.
PositionsOf(team) == [n \in 1 .. Len(team) |-> team[n].ref]

\* The positions of a partition's members, first team first.
RECURSIVE FlatPositions(_)
FlatPositions(p) ==
  IF p = <<>> THEN <<>> ELSE PositionsOf(Head(p)) \o FlatPositions(Tail(p))

\* C24: combinations yields its subsets in lexicographic order of the
\* selected positions of S, and generatePartitions yields its partitions in
\* lexicographic order of (first team, second team, ...) under that order.
C24_GenerationOrder ==
  /\ CombinationsDone =>
       LET ys == ValueOf(directResult).ys
       IN  \A m, n \in 1 .. Len(ys) :
             m < n => LexLess(PositionsOf(ys[m]), PositionsOf(ys[n]))
  /\ FreshStream =>
       \A m, n \in 1 .. Len(partitions.ys) :
         m < n => LexLess(FlatPositions(partitions.ys[m]), FlatPositions(partitions.ys[n]))

\* A stream of three or more partitions over two or more slots, shorter
\* than the set of all partitions.
C24_Witness ==
  /\ FreshStream /\ ValidRequest
  /\ Len(teamSizes) >= 2
  /\ Len(partitions.ys) >= 3
  /\ Len(partitions.ys) < Cardinality(AllPartitions(people, teamSizes))

C26_EmptyRequest ==
  (people = <<>> /\ teamSizes = <<>>) =>
    /\ pc # "threw"
    /\ FreshStream => partitions = Stream(<< <<>> >>, "none")
    /\ Returned =>
         /\ outcome.totalCombinationsChecked = 1
         /\ outcome.bestAssignments = <<Assignment(<<>>, 0)>>

\* The call with no people and no sizes returned.
C26_Witness ==
  /\ Returned
  /\ people = <<>> /\ teamSizes = <<>>
  /\ Len(outcome.bestAssignments) = 1

\* The unordered grouping of a partition: its teams as sets of persons.
GroupingOf(p) == {Refs(p[i]) : i \in 1 .. Len(p)}

\* C27 as written: also when people share ids, of every grouping of the
\* people into teams of the given sizes some slot ordering is enumerated,
\* so the returned list is not empty and its score is the minimum over all
\* the groupings.
C27_CompleteWithSharedIds ==
  /\ (FreshStream /\ WellFormed(people, teamSizes)) =>
       \A q \in AllPartitions(people, teamSizes) :
         \E n \in 1 .. Len(partitions.ys) : GroupingOf(partitions.ys[n]) = GroupingOf(q)
  /\ (Returned /\ WellFormed(people, teamSizes)) =>
       /\ outcome.bestAssignments # <<>>
       /\ outcome.bestAssignments[1].conflictScore =
            MinOf({calculateConflictScore(q, conflictMatrix) :
                     q \in AllPartitions(people, teamSizes)})

\* In every maximal run of consecutive equal sizes the teams of p have
\* pairwise distinct least ids.
DistinctLeastIdsInRuns(p, sizes) ==
  \A i, j \in 1 .. Len(sizes) :
    (i # j /\ j \in RunOf(sizes, i)) => LeastId(p[i]) # LeastId(p[j])

\* C27 as amended: whether ids are shared or not, a reordering inside the
\* runs of a slot assignment of the people is enumerated exactly when, in
\* every maximal run of consecutive equal sizes, its teams have pairwise
\* distinct least ids; and the call returns an assignment exactly when
\* there is such a slot assignment.
C27_CompleteUpToSharedLeastIds ==
  /\ (FreshStream /\ WellFormed(people, teamSizes)) =>
       LET runs == RunsOf(teamSizes)
           yielded == {ClassOf(partitions.ys[n], runs) : n \in 1 .. Len(partitions.ys)}
       IN  \A q \in AllPartitions(people, teamSizes) :
             ClassOf(q, runs) \in yielded <=> DistinctLeastIdsInRuns(q, teamSizes)
  /\ (Returned /\ WellFormed(people, teamSizes)) =>
       (outcome.bestAssignments # <<>>
          <=> \E q \in AllPartitions(people, teamSizes) : DistinctLeastIdsInRuns(q, teamSizes))

\* A call on people who share an id returned nothing although the people
\* can be grouped into the sizes.
C27_Witness ==
  /\ Returned /\ WellFormed(people, teamSizes)
  /\ ~HasUniqueIds(IdsOf(people))
  /\ Len(people) >= 2
  /\ outcome.bestAssignments = <<>>
  /\ outcome.totalCombinationsChecked = 0

\* =================================================== the Optimize screen
\* The Optimize page and the history store it shares with the history page.
\* The page's own conflictMatrix and noHistoryData are assigned by the
\* subscription only, from the store's people, hasData and conflictMatrix,
\* which change on the history page alone (while this page is not mounted):
\* on a mounted page they are functions of the store.

\* let noHistoryData, as the subscription leaves it.
noHistoryData == ~(historyStore.hasData /\ Len(historyStore.people) > 0)

\* let conflictMatrix, as the subscription leaves it.
localConflictMatrix ==
  IF noHistoryData THEN EmptyMatrix ELSE historyStore.conflictMatrix

\* storeData.people.map(p => ({ ...p, selected: true }))
allSelected(persons) ==
  [n \in 1 .. Len(persons) |-> [ref |-> n, id |-> persons[n].id, selected |-> TRUE]]

\* candidates.filter(c => c.selected)
selectedOf(cands) == SelectSeq(cands, LAMBDA c : c.selected)

\* The people of a request body: the selected candidates after
\* JSON.stringify and express.json(), new objects in the same order.
requestPeople(cands) == PeopleOf(IdsOf(selectedOf(cands)))

RECURSIVE digitsValue(_)
digitsValue(digits) ==
  IF digits = <<>> THEN 0
  ELSE 10 * digitsValue(SubSeq(digits, 1, Len(digits) - 1)) + digits[Len(digits)]

\* parseInt(teamSizeInput): NaN (NULL) for an empty input, the digits' value
\* for the string, a number with its fraction cut off (towards zero).
parseInt(input) ==
  IF input.kind = "empty" THEN NULL
  ELSE IF input.kind = "string" THEN Some(digitsValue(input.digits))
  ELSE IF input.halves >= 0 THEN Some(input.halves \div 2)
  ELSE Some(0 - ((0 - input.halves) \div 2))

\* The subscription's callback, for the candidates.
subscribedCandidates(store, cands) ==
  IF store.hasData /\ Len(store.people) > 0 THEN allSelected(store.people) ELSE cands

\* Mutant: the subscription does not take the stored results.
subscribedResults_never(store, shown) == shown

\* The subscription's callback, for the results.
subscribedResults(store, shown) ==
  IF store.hasData /\ Len(store.people) > 0 /\ store.optimizationResults # NULL
  THEN store.optimizationResults ELSE shown

\* The error the submission throws before it sends anything, <<>> if none.
submissionError(cands, input) ==
  LET count == Len(selectedOf(cands))
      teamSize == parseInt(input)
  IN  IF count = 0 THEN <<"Please select at least one candidate">>
      ELSE IF teamSize = NULL \/ ValueOf(teamSize) < 2
           THEN <<"Team size must be at least 2">>
      ELSE IF count < ValueOf(teamSize)
           THEN <<"Not enough candidates for team size", ValueOf(teamSize),
                  "Selected:", count>>
      ELSE NoError

\* Mutant: the remainder is pushed even when there is none.
submittedTeamSizes_alwaysRemainder(count, teamSize) ==
  Append([i \in 1 .. (count \div teamSize) |-> teamSize], count % teamSize)

\* const teamSizes = calculateTeamSizes(selectedCandidates.length, teamSize)
submittedTeamSizes(count, teamSize) == calculateTeamSizes(count, teamSize)

\* body: JSON.stringify({ people: selectedCandidates, teamSizes, conflictMatrix })
requestOf(cands, input, matrix) ==
  [own |-> TRUE,
   people |-> requestPeople(cands),
   teamSizes |-> submittedTeamSizes(Len(selectedOf(cands)), ValueOf(parseInt(input))),
   conflictMatrix |-> matrix]

\* ------------------------------------------------ the server, in one step
\* The for loop of optimizeTeams over what the generator yields.
RECURSIVE scanPartitions(_, _, _, _, _, _)
scanPartitions(ys, matrix, best, min, checked, cap) ==
  IF ys = <<>> THEN [best |-> best, checked |-> checked]
  ELSE LET partition == Head(ys)
           score == calculateConflictScore(partition, matrix)
       IN  scanPartitions(Tail(ys), matrix,
                          updateBest(best, min, partition, score, cap),
                          updateMin(min, score), checked + 1, cap)

\* A whole call optimizeTeams(persons, sizes, matrix) of the handler, which
\* passes no maxResults.
optimizeTeamsCall(persons, sizes, matrix, elapsed) ==
  IF sizesMismatch(totalPeopleNeeded(sizes), Len(persons))
  THEN InvalidInput(totalPeopleNeeded(sizes), Len(persons))
  ELSE LET stream == generatePartitions(persons, sizes, NULL)
           scan == scanPartitions(stream.ys, matrix, initialBest, Infinity, 0,
                                  DefaultMaxResults)
       IN  IF stream.err # "none" THEN Thrown(stream.err)
           ELSE [kind |-> "result",
                 bestAssignments |-> Slice0(scan.best, DefaultMaxResults),
                 totalCombinationsChecked |-> scan.checked,
                 executionTimeMs |-> elapsed]

\* The handler of POST /api/optimize for a body that carries the three
\* fields (arrays and objects are truthy, empty or not).
handlerResponse(request, elapsed) ==
  LET returned == optimizeTeamsCall(request.people, request.teamSizes,
                                    request.conflictMatrix, elapsed)
  IN  IF returned.kind = "result" THEN resultResponse(returned)
      ELSE errorResponse(500, caughtMessage(returned))

\* response.statusText
statusText(status) ==
  IF status = 400 THEN "Bad Request"
  ELSE IF status = 413 THEN "Payload Too Large"
  ELSE "Internal Server Error"

\* The pending requests are a bag: they are answered in any order.
withRequest(request) == inFlight (+) SetToBag({request})

withoutRequest(request) == inFlight (-) SetToBag({request})

\* The pending requests once their page has been left.
orphaned(pending) ==
  LET left == {[r EXCEPT !.own = FALSE] : r \in BagToSet(pending)}
  IN  [r \in left |-> CopiesIn(r, pending) + CopiesIn([r EXCEPT !.own = TRUE], pending)]

\* ------------------------------------------------------ the history page
\* The histories a user uploads: three persons with a matrix that stores a
\* pair in one direction (loadTeamData asks of conflictMatrix only that it
\* is an object), or nobody and an empty matrix.
HistoryPeople == { PeopleOf(<< <<1>>, <<2>>, <<3>> >>), <<>> }

HistoryMatrices ==
  { EmptyMatrix,
    [pr \in { << <<2>>, <<1>> >> } |-> 1] }

\* The readings of executionTimeMs in the answers to the screen, which only
\* prints them.
ScreenElapsed == {0}

\* loadTeamData(data): the store is set anew, without optimizationResults.
\* Uploading happens on the history page, so the Optimize page is not mounted.
loadTeamData ==
  /\ ~mounted
  /\ \E persons \in HistoryPeople, matrix \in HistoryMatrices :
       /\ persons = <<>> <=> matrix = EmptyMatrix
       /\ historyStore' = [people |-> persons, conflictMatrix |-> matrix,
                           hasData |-> TRUE, optimizationResults |-> NULL]
  /\ UNCHANGED <<inputs, locals, pc, outcome, previous, endpoint, helper,
                 mounted, candidates, teamSizeInput, results, loading, error, inFlight>>

\* ----------------------------------------------------- the Optimize page
\* The page is mounted: a new component with the state it declares, whose
\* onMount subscribes to the store; the callback runs at once.
Mount ==
  /\ ~mounted
  /\ mounted' = TRUE
  /\ candidates' = subscribedCandidates(historyStore, <<>>)
  /\ results' = subscribedResults(historyStore, NULL)
  /\ teamSizeInput' = InitialTeamSizeInput
  /\ loading' = FALSE
  /\ error' = NoError
  /\ UNCHANGED <<inputs, locals, pc, outcome, previous, endpoint, helper,
                 historyStore, inFlight>>

\* The page is left: the component is destroyed and unsubscribed, its state
\* is gone (the variables go back to what a component declares); a fetch it
\* has started goes on, and its continuation still updates the store.
Leave ==
  /\ mounted
  /\ mounted' = FALSE
  /\ candidates' = <<>>
  /\ results' = NULL
  /\ teamSizeInput' = InitialTeamSizeInput
  /\ loading' = FALSE
  /\ error' = NoError
  /\ inFlight' = orphaned(inFlight)
  /\ UNCHANGED <<inputs, locals, pc, outcome, previous, endpoint, helper, historyStore>>

\* candidates.find(c => c.id === candidateId): the first with that id.
findCandidate(cands, candidateId) ==
  CHOOSE m \in 1 .. Len(cands) :
    /\ cands[m].id = candidateId
    /\ \A l \in 1 .. m - 1 : cands[l].id # candidateId

\* toggleCandidate(candidate.id), from the n-th candidate's checkbox.
toggleCandidate ==
  /\ mounted
  /\ ~noHistoryData
  /\ \E n \in 1 .. Len(candidates) :
       candidates' = [candidates EXCEPT
                        ![findCandidate(candidates, candidates[n].id)].selected = ~@]
  /\ UNCHANGED <<inputs, locals, pc, outcome, previous, endpoint, helper,
                 historyStore, mounted, teamSizeInput, results, loading, error, inFlight>>

selectAll ==
  /\ mounted
  /\ ~noHistoryData
  /\ candidates' = [n \in 1 .. Len(candidates) |-> [candidates[n] EXCEPT !.selected = TRUE]]
  /\ UNCHANGED <<inputs, locals, pc, outcome, previous, endpoint, helper,
                 historyStore, mounted, teamSizeInput, results, loading, error, inFlight>>

deselectAll ==
  /\ mounted
  /\ ~noHistoryData
  /\ candidates' = [n \in 1 .. Len(candidates) |-> [candidates[n] EXCEPT !.selected = FALSE]]
  /\ UNCHANGED <<inputs, locals, pc, outcome, previous, endpoint, helper,
                 historyStore, mounted, teamSizeInput, results, loading, error, inFlight>>

\* What the user leaves in the team-size input: nothing, or a number, given
\* in halves (1.5, 2.5). min and max of the input do not stop the typing.
InputHalves == {3, 5}

TeamSizeInputs == {InputEmpty} \cup {InputNumber(h) : h \in InputHalves}

\* bind:value={teamSizeInput}
EditTeamSize ==
  /\ mounted
  /\ ~noHistoryData
  /\ \E input \in TeamSizeInputs : teamSizeInput' = input
  /\ UNCHANGED <<inputs, locals, pc, outcome, previous, endpoint, helper,
                 historyStore, mounted, candidates, results, loading, error, inFlight>>

\* disabled={loading || candidates.filter(c => c.selected).length === 0}
buttonDisabled == loading \/ Len(selectedOf(candidates)) = 0

\* The button is clicked: optimizeTeams() up to its await fetch(...), or to
\* its finally when the checks throw.
optimizeTeams ==
  /\ mounted
  /\ ~noHistoryData
  /\ ~buttonDisabled
  /\ results' = NULL
  /\ LET thrown == submissionError(candidates, teamSizeInput)
     IN  IF thrown # NoError
         THEN /\ error' = thrown
              /\ loading' = FALSE
              /\ UNCHANGED inFlight
         ELSE /\ BagCardinality(inFlight) < MaxInFlight
              /\ error' = NoError
              /\ loading' = TRUE
              /\ inFlight' = withRequest(
                   requestOf(candidates, teamSizeInput, localConflictMatrix))
  /\ UNCHANGED <<inputs, locals, pc, outcome, previous, endpoint, helper,
                 historyStore, mounted, candidates, teamSizeInput>>

\* The server answers a pending request and optimizeTeams() goes on after its
\* await: with an answer that is ok the result goes to results and to the
\* store, whose update runs the mounted page's subscription; with another
\* the error is set. A request whose page has been left updates the store
\* all the same; its own page's state is gone.
ResponseArrives ==
  \E request \in BagToSet(inFlight), elapsed \in ScreenElapsed :
    LET answer == handlerResponse(request, elapsed)
        updated == [historyStore EXCEPT !.optimizationResults = Some(answer.json)]
    IN  /\ inFlight' = withoutRequest(request)
        /\ IF answer.status = 200
           THEN /\ historyStore' = updated
                /\ candidates' = IF mounted THEN subscribedCandidates(updated, candidates)
                                 ELSE candidates
                /\ results' = IF request.own THEN Some(answer.json)
                              ELSE IF mounted THEN subscribedResults(updated, results)
                              ELSE results
                /\ UNCHANGED error
           ELSE /\ error' = IF request.own THEN <<"Server error:", statusText(answer.status)>>
                            ELSE error
                /\ UNCHANGED <<historyStore, candidates, results>>
        /\ loading' = IF request.own THEN FALSE ELSE loading
        /\ UNCHANGED <<inputs, locals, pc, outcome, previous, endpoint, helper,
                       mounted, teamSizeInput>>

\* app.use(express.json()) answers by itself, 413, a body above its limit;
\* the size of a body is not modelled, so any request may meet this. The
\* page takes the !response.ok branch.
ResponseNotOk ==
  \E request \in BagToSet(inFlight) :
    /\ inFlight' = withoutRequest(request)
    /\ error' = IF request.own THEN <<"Server error:", statusText(413)>> ELSE error
    /\ loading' = IF request.own THEN FALSE ELSE loading
    /\ UNCHANGED <<inputs, locals, pc, outcome, previous, endpoint, helper,
                   historyStore, mounted, candidates, teamSizeInput, results>>

\* fetch rejects (the server cannot be reached): error = err.message.
FetchFails ==
  \E request \in BagToSet(inFlight) :
    /\ inFlight' = withoutRequest(request)
    /\ error' = IF request.own THEN <<"Failed to fetch">> ELSE error
    /\ loading' = IF request.own THEN FALSE ELSE loading
    /\ UNCHANGED <<inputs, locals, pc, outcome, previous, endpoint, helper,
                   historyStore, mounted, candidates, teamSizeInput, results>>

\* The front end from the start of the application; the server's own
\* variables rest, each request being served in one step.
InitScreen ==
  /\ people = <<>> /\ teamSizes = <<>> /\ conflictMatrix = EmptyMatrix
  /\ maxResultsArg = NULL
  /\ pc = "idle"
  /\ InitLocals
  /\ body = RequiredFields
  /\ response = NoResponse
  /\ direct = NoDirect
  /\ directResult = NULL
  /\ NoScreen

NextScreen ==
  \/ loadTeamData
  \/ Mount
  \/ Leave
  \/ toggleCandidate
  \/ selectAll
  \/ deselectAll
  \/ EditTeamSize
  \/ optimizeTeams
  \/ ResponseArrives
  \/ ResponseNotOk
  \/ FetchFails

SpecScreen == InitScreen /\ [][NextScreen]_vars

\* ------------------------------------------------------------------ C23
\* The step in which the mounted page's own request ends well: loading
\* falls, the page stays, and no error is left.
OwnSuccessStep ==
  mounted /\ mounted' /\ loading /\ ~loading' /\ error' = NoError

LeaveStep == mounted /\ ~mounted'

MountStep == ~mounted /\ mounted'

\* An upload sets the store anew (on the history page), without results.
UploadStep ==
  ~mounted /\ ~mounted' /\ historyStore' # historyStore
    /\ historyStore'.optimizationResults = NULL

\* A request is answered and its result goes to the store.
StoredStep ==
  /\ BagCardinality(inFlight') = BagCardinality(inFlight) - 1
  /\ historyStore'.optimizationResults # NULL
  /\ historyStore' = [historyStore EXCEPT !.optimizationResults = historyStore'.optimizationResults]

MeetsPreconditions(request) ==
  /\ Len(request.people) >= 1
  /\ request.teamSizes # <<>>
  /\ AllPositive(request.teamSizes)
  /\ totalPeopleNeeded(request.teamSizes) = Len(request.people)
  /\ optimizeTeamsCall(request.people, request.teamSizes,
                       request.conflictMatrix, 0).kind = "result"

\* The step in which the page sends a request.
SendStep == BagCardinality(inFlight') > BagCardinality(inFlight)

\* C28: every request the Optimize screen sends meets the optimiser's
\* preconditions. A request is sent only when at least one candidate is
\* selected, the team size parses to an integer >= 2 and at least that many
\* candidates are selected; the teamSizes of every request are positive and
\* sum to the number of people in the request.
C28_RequestsMeetPreconditions ==
  /\ [](\A request \in BagToSet(inFlight) : MeetsPreconditions(request))
  /\ [][SendStep =>
          LET count == Len(selectedOf(candidates))
              teamSize == parseInt(teamSizeInput)
          IN  /\ count >= 1
              /\ teamSize # NULL
              /\ ValueOf(teamSize) >= 2
              /\ count >= ValueOf(teamSize)
              /\ \E request \in BagToSet(inFlight') :
                   /\ request.own
                   /\ Len(request.people) = count
                   /\ IdsOf(request.people) = IdsOf(selectedOf(candidates))]_vars

\* A request for three selected candidates in teams of two is pending: it
\* carries a full team and the remainder.
C28_Witness ==
  \E request \in BagToSet(inFlight) :
    /\ request.own
    /\ Len(request.people) = 3
    /\ request.teamSizes = <<2, 1>>
    /\ parseInt(teamSizeInput) = Some(2)

\* ------------------------------------------------------------------ C29
\* conflictMatrix[person1Id]?.[person2Id] ?? conflictMatrix[person2Id]?.[person1Id] ?? 0
getConflictBetween(matrix, person1Id, person2Id) ==
  IF <<person1Id, person2Id>> \in DOMAIN matrix THEN matrix[<<person1Id, person2Id>>]
  ELSE IF <<person2Id, person1Id>> \in DOMAIN matrix THEN matrix[<<person2Id, person1Id>>]
  ELSE 0

\* {#each team.members.slice(i + 1) as member2}: what the i-th member's
\* lines add up to, from the j-th member on.
RECURSIVE breakdownInner(_, _, _, _)
breakdownInner(members, matrix, i, j) ==
  IF j > Len(members) THEN 0
  ELSE getConflictBetween(matrix, members[i].id, members[j].id)
         + breakdownInner(members, matrix, i, j + 1)

\* {#each team.members as member1, i}
RECURSIVE breakdownOuter(_, _, _)
breakdownOuter(members, matrix, i) ==
  IF i > Len(members) THEN 0
  ELSE breakdownInner(members, matrix, i, i + 1) + breakdownOuter(members, matrix, i + 1)

\* {#each assignment.teams as team}: the conflicts listed under an assignment.
RECURSIVE breakdownTotal(_, _)
breakdownTotal(teams, matrix) ==
  IF teams = <<>> THEN 0
  ELSE breakdownOuter(Head(teams), matrix, 1) + breakdownTotal(Tail(teams), matrix)

\* C29: for every assignment displayed on the Optimize screen, the per-pair
\* conflicts listed in its teams' breakdowns sum to the conflictScore the
\* backend computed for it, also when the matrix stores a pair in one
\* direction only.
C29_BreakdownSumsToScore ==
  (mounted /\ ~noHistoryData /\ results # NULL) =>
    \A n \in 1 .. Len(ValueOf(results).bestAssignments) :
      LET assignment == ValueOf(results).bestAssignments[n]
      IN  breakdownTotal(assignment.teams, localConflictMatrix) = assignment.conflictScore

\* ------------------------------------------------------------------ C30
\* The mounted page's own request is pending.
OwnPending == \E request \in BagToSet(inFlight) : request.own

\* C30: on the Optimize screen at most one optimization request is in
\* flight at any time; loading is true from before the request is sent until
\* it completes, whatever its end; and after a failure (error is set)
\* results is null.
C30_OneRequestInFlight ==
  /\ BagCardinality(inFlight) <= 1
  /\ mounted => (loading <=> OwnPending)
  /\ (mounted /\ error # NoError) => results = NULL

====
